---------------------------- MODULE Spec2Model ----------------------------
(***************************************************************************)
(* change-detector-rs: ChangeDetector<T> (src/src/lib.rs).                 *)
(*                                                                         *)
(* One detector holds the 64-bit hash of the value it saw last.  detect    *)
(* and detect_owned hash the supplied value, compare the digest with the   *)
(* stored one, overwrite the stored one and report Some(value) on a        *)
(* difference and None otherwise.                                          *)
(*                                                                         *)
(* The value type T is a small set of abstract values.  DefaultHasher is a *)
(* fixed but unknown function from values to digests: it is chosen once,   *)
(* in Init, from all functions Values -> Hashes, so that zero digests and  *)
(* collisions between distinct values are among the behaviours explored.   *)
(* The u64 digest space is cut down to 0..MaxHash; the code performs no    *)
(* arithmetic on digests, only (in)equality tests.                         *)
(***************************************************************************)
EXTENDS Integers, Sequences, FiniteSets, TLC

(* ------------------------------ bounds -------------------------------- *)

\* number of distinct values of type T
NumValues == 3

\* largest digest; digests are 0..MaxHash
MaxHash == 2

\* number of detection calls made on one detector
MaxCalls == 4

Values == 1..NumValues

Hashes == 0..MaxHash

(* ------------------------------- state -------------------------------- *)

VARIABLES
    hashFn,       \* the digest DefaultHasher gives each value (fixed per run)
    cd,           \* the detector: [hash |-> u64]
    values,       \* the values passed to the detection calls so far, in order
    results,      \* what each of those calls returned
    twin,         \* a second detector fed the same values by either variant
    twinResults,  \* what the twin's calls returned
    writes,       \* the caller's write counter (tests::example_works)
    file,         \* the values the caller wrote, in order
    gated,        \* every detection call so far went through write_to_file
    op,           \* the operation called last
    ret,          \* what it returned
    callers       \* two callers sharing cd: each one's position in its call

vars == <<hashFn, cd, values, results, twin, twinResults, writes, file, gated, op, ret, callers>>

(* ------------------------- Option<T> and helpers ---------------------- *)

None == <<"None">>

Some(value) == <<"Some", value>>

Last(s) == s[Len(s)]

\* hasher.finish() after value.hash(&mut hasher) on a DefaultHasher::new()
hash_of(value) == hashFn[value]

(* ------------------------ impl ChangeDetector<T> ---------------------- *)

\* mutant: the initial stored hash is 1 instead of the sentinel 0
new_one == [hash |-> 1]

new == [hash |-> 0]

\* mutant: the comparison with the sentinel is negated
untouched_neg(self) == self.hash # 0

untouched(self) == self.hash = 0

\* mutant: the accessor returns the initial sentinel, not the field
hash_sentinel(self) == 0

hash(self) == self.hash

\* mutant: the stored hash is not overwritten
detect_stale(self, value) ==
    LET h == hash_of(value)
        change == self.hash # h
    IN  [self |-> self,
         ret  |-> IF change THEN Some(value) ELSE None]

\* mutant: the comparison is inverted
detect_inverted(self, value) ==
    LET h == hash_of(value)
        change == self.hash = h
    IN  [self |-> [self EXCEPT !.hash = h],
         ret  |-> IF change THEN Some(value) ELSE None]

\* mutant: an ordering test instead of an inequality test
detect_less(self, value) ==
    LET h == hash_of(value)
        change == self.hash < h
    IN  [self |-> [self EXCEPT !.hash = h],
         ret  |-> IF change THEN Some(value) ELSE None]

\* mutant: a change is reported only against the initial sentinel
detect_first(self, value) ==
    LET h == hash_of(value)
        change == self.hash = 0
    IN  [self |-> [self EXCEPT !.hash = h],
         ret  |-> IF change THEN Some(value) ELSE None]

\* mutant: the value is handed back on every call
detect_always(self, value) ==
    LET h == hash_of(value)
    IN  [self |-> [self EXCEPT !.hash = h],
         ret  |-> Some(value)]

\* mutant: a digest equal to the sentinel is rejected with a panic
detect_asserts(self, value) ==
    LET h == hash_of(value)
        change == self.hash # h
    IN  [self |-> [self EXCEPT !.hash = h],
         ret  |-> IF h = 0 THEN <<"panic">>
                  ELSE IF change THEN Some(value) ELSE None]

detect(self, value) ==
    LET h == hash_of(value)
        change == self.hash # h
    IN  [self |-> [self EXCEPT !.hash = h],
         ret  |-> IF change THEN Some(value) ELSE None]

\* mutant: the value is handed back on every call
detect_owned_always(self, value) ==
    LET h == hash_of(value)
    IN  [self |-> [self EXCEPT !.hash = h],
         ret  |-> Some(value)]

\* mutant: a change is reported only against the initial sentinel
detect_owned_first(self, value) ==
    LET h == hash_of(value)
        change == self.hash = 0
    IN  [self |-> [self EXCEPT !.hash = h],
         ret  |-> IF change THEN Some(value) ELSE None]

\* mutant: the stored hash is overwritten only when no change is reported
detect_owned_stale(self, value) ==
    LET h == hash_of(value)
        change == self.hash # h
    IN  [self |-> IF change THEN self ELSE [self EXCEPT !.hash = h],
         ret  |-> IF change THEN Some(value) ELSE None]

detect_owned(self, value) ==
    LET h == hash_of(value)
        change == self.hash # h
    IN  [self |-> [self EXCEPT !.hash = h],
         ret  |-> IF change THEN Some(value) ELSE None]

\* the two detection variants
Variants == {"detect", "detect_owned"}

\* a detection call by the named variant
call(variant, self, value) ==
    IF variant = "detect" THEN detect(self, value) ELSE detect_owned(self, value)

\* mutant: the write is not gated on the result
write_to_file_always(change_detector, nums, w) ==
    LET r == detect_owned(change_detector, nums)
    IN  [self   |-> r.self,
         ret    |-> r.ret,
         writes |-> w + 1,
         wrote  |-> TRUE]

\* mutant: the write happens on None instead of Some
write_to_file_inverted(change_detector, nums, w) ==
    LET r == detect_owned(change_detector, nums)
    IN  [self   |-> r.self,
         ret    |-> r.ret,
         writes |-> IF r.ret = None THEN w + 1 ELSE w,
         wrote  |-> r.ret = None]

\* the closure of tests::example_works: a write only on Some
write_to_file(change_detector, nums, w) ==
    LET r == detect_owned(change_detector, nums)
    IN  [self   |-> r.self,
         ret    |-> r.ret,
         writes |-> IF r.ret # None THEN w + 1 ELSE w,
         wrote  |-> r.ret # None]

(* ------------------------------ actions ------------------------------- *)

\* the callers that share one detector
Callers == {"a", "b"}

\* a caller that has not called yet
Idle == [pc |-> "idle", value |-> 0, hash |-> 0, change |-> FALSE, ret |-> None]

Init ==
    /\ hashFn \in [Values -> Hashes]
    /\ cd = new
    /\ values = << >>
    /\ results = << >>
    /\ twin = new
    /\ twinResults = << >>
    /\ writes = 0
    /\ file = << >>
    /\ gated = TRUE
    /\ op = "new"
    /\ ret = None
    /\ callers = [c \in Callers |-> Idle]

\* ChangeDetector::new(): the caller starts over with a fresh detector
New ==
    /\ cd' = new
    /\ twin' = new
    /\ values' = << >>
    /\ results' = << >>
    /\ twinResults' = << >>
    /\ writes' = 0
    /\ file' = << >>
    /\ gated' = TRUE
    /\ op' = "new"
    /\ ret' = None
    /\ UNCHANGED <<hashFn, callers>>

Untouched ==
    /\ op' = "untouched"
    /\ ret' = untouched(cd)
    /\ UNCHANGED <<hashFn, cd, values, results, twin, twinResults, writes, file, gated, callers>>

Hash ==
    /\ op' = "hash"
    /\ ret' = hash(cd)
    /\ UNCHANGED <<hashFn, cd, values, results, twin, twinResults, writes, file, gated, callers>>

Detect(value) ==
    /\ Len(values) < MaxCalls
    /\ \E variant \in Variants :
       LET r == detect(cd, value)
           t == call(variant, twin, value)
       IN  /\ cd' = r.self
           /\ ret' = r.ret
           /\ results' = Append(results, r.ret)
           /\ twin' = t.self
           /\ twinResults' = Append(twinResults, t.ret)
    /\ values' = Append(values, value)
    /\ gated' = FALSE
    /\ op' = "detect"
    /\ UNCHANGED <<hashFn, writes, file, callers>>

DetectOwned(value) ==
    /\ Len(values) < MaxCalls
    /\ \E variant \in Variants :
       LET r == detect_owned(cd, value)
           t == call(variant, twin, value)
       IN  /\ cd' = r.self
           /\ ret' = r.ret
           /\ results' = Append(results, r.ret)
           /\ twin' = t.self
           /\ twinResults' = Append(twinResults, t.ret)
    /\ values' = Append(values, value)
    /\ gated' = FALSE
    /\ op' = "detect_owned"
    /\ UNCHANGED <<hashFn, writes, file, callers>>

WriteToFile(nums) ==
    /\ Len(values) < MaxCalls
    /\ \E variant \in Variants :
       LET r == write_to_file(cd, nums, writes)
           t == call(variant, twin, nums)
       IN  /\ cd' = r.self
           /\ ret' = r.ret
           /\ results' = Append(results, r.ret)
           /\ writes' = r.writes
           /\ file' = IF r.wrote THEN Append(file, nums) ELSE file
           /\ twin' = t.self
           /\ twinResults' = Append(twinResults, t.ret)
    /\ values' = Append(values, nums)
    /\ op' = "write_to_file"
    /\ UNCHANGED <<hashFn, gated, callers>>

Next ==
    \/ New
    \/ Untouched
    \/ Hash
    \/ \E value \in Values : Detect(value)
    \/ \E value \in Values : DetectOwned(value)
    \/ \E nums \in Values : WriteToFile(nums)

Spec == Init /\ [][Next]_vars

(* ------------------- one detector, two callers ------------------------ *)
(* The detection call taken statement by statement.  values and results   *)
(* hold the calls made before the detector is handed to the callers.      *)

\* what the callers leave alone
sequential == <<hashFn, values, results, twin, twinResults, writes, file, gated, op, ret>>

\* mutant: the detector is reachable through an aliased mutable reference
exclusive_aliased(c) == TRUE

\* &mut self: no other call on the detector is in progress
exclusive(c) ==
    \A d \in Callers \ {c} : callers[d].pc \in {"idle", "returned"}

\* a call made while the detector still has one owner
Prepare(value) ==
    /\ \A c \in Callers : callers[c].pc = "idle"
    /\ Len(values) + Cardinality(Callers) < MaxCalls
    /\ LET r == detect(cd, value)
       IN  /\ cd' = r.self
           /\ results' = Append(results, r.ret)
    /\ values' = Append(values, value)
    /\ UNCHANGED <<hashFn, twin, twinResults, writes, file, gated, op, ret, callers>>

\* let hash = hasher.finish()
Enter(c, value) ==
    /\ callers[c].pc = "idle"
    /\ exclusive(c)
    /\ callers' = [callers EXCEPT ![c] =
                     [@ EXCEPT !.pc = "hashed", !.value = value, !.hash = hash_of(value)]]
    /\ UNCHANGED <<cd, sequential>>

\* let change = self.hash != hash
Compare(c) ==
    /\ callers[c].pc = "hashed"
    /\ callers' = [callers EXCEPT ![c] =
                     [@ EXCEPT !.pc = "compared",
                               !.change = (cd.hash # callers[c].hash)]]
    /\ UNCHANGED <<cd, sequential>>

\* self.hash = hash
Store(c) ==
    /\ callers[c].pc = "compared"
    /\ cd' = [cd EXCEPT !.hash = callers[c].hash]
    /\ callers' = [callers EXCEPT ![c] = [@ EXCEPT !.pc = "stored"]]
    /\ UNCHANGED sequential

\* if change { Some(value) } else { None }
Return(c) ==
    /\ callers[c].pc = "stored"
    /\ callers' = [callers EXCEPT ![c] =
                     [@ EXCEPT !.pc = "returned",
                               !.ret = IF callers[c].change
                                       THEN Some(callers[c].value) ELSE None]]
    /\ UNCHANGED <<cd, sequential>>

NextShared ==
    \/ \E value \in Values : Prepare(value)
    \/ \E c \in Callers, value \in Values : Enter(c, value)
    \/ \E c \in Callers : Compare(c)
    \/ \E c \in Callers : Store(c)
    \/ \E c \in Callers : Return(c)

SpecShared == Init /\ [][NextShared]_vars

TypeOK ==
    /\ hashFn \in [Values -> Hashes]
    /\ cd.hash \in Hashes
    /\ Len(values) <= MaxCalls
    /\ Len(results) = Len(values)
    /\ writes \in 0..MaxCalls


(* ------------------------------ claims -------------------------------- *)

\* the last step was a detection call by the named operation
Called(name) == op' = name /\ Len(values') = Len(values) + 1

\* the number of maximal runs of consecutive equal-hash values in s
Runs(s) == Cardinality({i \in 1..Len(s) : i = 1 \/ hash_of(s[i]) # hash_of(s[i-1])})

\* C1: the stored hash is hash_of(the value of the most recent detection
\* call), or 0 when no detection call has been made, after any sequence of
\* detect, detect_owned, untouched and hash calls and whether or not the
\* last detection call reported a change.
C1_StoredHashIsLastHash ==
    cd.hash = IF Len(values) = 0 THEN 0 ELSE hash_of(Last(values))

\* a detection call that reported no change although the stored hash moved
\* on from another value's
C1_Witness ==
    /\ Len(values) >= 2
    /\ Last(results) = None
    /\ Last(values) # values[Len(values) - 1]
    /\ cd.hash = hash_of(Last(values))

\* C2: detect(v) returns Some(v) exactly when hash_of(v) differs from the
\* hash stored immediately before the call, and None otherwise.
C2_DetectReportsHashDifference ==
    [][Called("detect") =>
         ret' = IF hash_of(Last(values')) # cd.hash
                THEN Some(Last(values')) ELSE None]_vars

\* a detect call that returned None right after a call that returned Some
C2_Witness ==
    /\ op = "detect"
    /\ Len(values) >= 2
    /\ ret = None
    /\ results[Len(values) - 1] # None

\* C3: for v with hash_of(v) # 0, the first detection call on a fresh
\* detector returns Some(v).
C3_FirstCallReportsChange ==
    (Len(values) >= 1 /\ hash_of(values[1]) # 0) => results[1] = Some(values[1])

\* the first call, by detect_owned, with a value of non-zero hash
C3_Witness ==
    /\ op = "detect_owned"
    /\ Len(values) = 1
    /\ hash_of(values[1]) # 0
    /\ ret = Some(values[1])

C5_RepeatReportsOnce ==
    \A v \in Values :
        (/\ Len(values) >= 1
         /\ \A i \in 1..Len(values) : values[i] = v
         /\ hash_of(v) # 0)
        => /\ results[1] = Some(v)
           /\ \A i \in 2..Len(values) : results[i] = None

\* one value of non-zero hash fed three times
C5_Witness ==
    /\ Len(values) = 3
    /\ \A i \in 1..3 : values[i] = values[1]
    /\ hash_of(values[1]) # 0
    /\ results = <<Some(values[1]), None, None>>

\* C6 as stated: v1 then v2 with hash_of(v1) # hash_of(v2), fed to a fresh
\* detector, are both reported changed.
C6_Original ==
    (Len(values) >= 2 /\ hash_of(values[1]) # hash_of(values[2]))
    => (results[1] = Some(values[1]) /\ results[2] = Some(values[2]))

\* C6 amended: v1 then v2 with hash_of(v1) # hash_of(v2) and
\* hash_of(v1) # 0, fed to a fresh detector, are both reported changed.
C6_TwoDistinctBothChanged ==
    (/\ Len(values) >= 2
     /\ hash_of(values[1]) # hash_of(values[2])
     /\ hash_of(values[1]) # 0)
    => (results[1] = Some(values[1]) /\ results[2] = Some(values[2]))

\* two values of different hashes, the first one's non-zero, by detect_owned
C6_Witness ==
    /\ op = "detect_owned"
    /\ Len(values) = 2
    /\ hash_of(values[1]) # hash_of(values[2])
    /\ hash_of(values[1]) # 0
    /\ results = <<Some(values[1]), Some(values[2])>>

\* C7: the k-th detection call, k >= 2, reports changed (with the value
\* supplied) exactly when hash_of(v_k) # hash_of(v_{k-1}); earlier values
\* have no influence.
C7_OnlyPredecessorMatters ==
    \A k \in 2..Len(values) :
        results[k] = IF hash_of(values[k]) # hash_of(values[k-1])
                     THEN Some(values[k]) ELSE None

\* A, B, A, B with different hashes: changed on every call from the second
C7_Witness ==
    /\ Len(values) = 4
    /\ values[3] = values[1]
    /\ values[4] = values[2]
    /\ hash_of(values[1]) # hash_of(values[2])
    /\ \A k \in 2..4 : results[k] = Some(values[k])

\* C8 as stated: untouched() returns true exactly when no detection call
\* has been made on the detector.
C8_Original ==
    op = "untouched" => ret = (Len(values) = 0)

\* C8 amended: untouched() returns true exactly when no detection call has
\* been made on the detector or the value of the most recent detection call
\* has hash 0.
C8_UntouchedIffZeroHash ==
    op = "untouched" => ret = (Len(values) = 0 \/ hash_of(Last(values)) = 0)

\* untouched() called on a used detector whose stored hash is not 0
C8_Witness ==
    /\ op = "untouched"
    /\ Len(values) > 0
    /\ hash_of(Last(values)) # 0
    /\ ret = FALSE

\* C9: detect and detect_owned agree: from the same stored hash and for the
\* same value both return the same result and leave the same stored hash,
\* and a detector fed the same values through either variant at every step
\* has returned the same results and holds the same stored hash.
C9_VariantsEquivalent ==
    /\ \A v \in Values : detect(cd, v) = detect_owned(cd, v)
    /\ twinResults = results
    /\ twin.hash = cd.hash

\* both variants used on one detector, with both outcomes seen
C9_Witness ==
    /\ op = "detect_owned"
    /\ ~gated
    /\ Len(values) >= 3
    /\ \E i, j \in 1..Len(values) : results[i] = None /\ results[j] # None

\* C10: a caller that writes only when detect_owned returns Some performs
\* one write per maximal run of consecutive equal-hash values, given that
\* the first value's hash is not 0; for a, a, b, b with different hashes
\* that is 2 writes.
C10_OneWritePerRun ==
    /\ (gated /\ Len(values) >= 1 /\ hash_of(values[1]) # 0)
         => writes = Runs(values)
    /\ \A a, b \in Values :
         (/\ gated
          /\ values = <<a, a, b, b>>
          /\ hash_of(a) # hash_of(b)
          /\ hash_of(a) # 0)
         => writes = 2

\* the sequence [1,2,3], [1,2,3], [1,2,3,4], [1,2,3,4] of example_works
C10_Witness ==
    /\ gated
    /\ values = <<1, 1, 2, 2>>
    /\ hash_of(1) # hash_of(2)
    /\ hash_of(1) # 0
    /\ writes = 2


\* the last step was a detection call, by any variant
Detected == Len(values') = Len(values) + 1

\* the detector and the results after feeding s, in order, to a fresh detector
RECURSIVE Run(_)
Run(s) ==
    IF s = << >>
    THEN [self |-> new, results |-> << >>]
    ELSE LET p == Run(SubSeq(s, 1, Len(s) - 1))
             r == detect(p.self, Last(s))
         IN  [self |-> r.self, results |-> Append(p.results, r.ret)]

\* C11: untouched() and hash() leave the detector as it was, so that every
\* later detection call returns what it would have returned, and hash()
\* returns the stored hash.
C11_AccessorsArePure ==
    [][(op' \in {"untouched", "hash"}) =>
         /\ cd' = cd
         /\ \A v \in Values : detect(cd', v) = detect(cd, v)
         /\ \A v \in Values : detect_owned(cd', v) = detect_owned(cd, v)
         /\ (op' = "hash" => ret' = cd.hash)]_vars

\* hash() called on a used detector whose stored hash is not 0
C11_Witness ==
    /\ op = "hash"
    /\ Len(values) >= 1
    /\ ret = cd.hash
    /\ ret # 0

\* C12: new, untouched and hash can be called in every reachable state, and
\* detect(v) and detect_owned(v) for every value v (as long as the model's
\* cap on the number of calls is not reached); every call completes in one
\* step with one of its regular outcomes: a detector, a boolean, a digest,
\* None or Some of the supplied value.
C12_OperationsAreTotal ==
    /\ ENABLED New
    /\ ENABLED Untouched
    /\ ENABLED Hash
    /\ Len(values) < MaxCalls =>
         \A v \in Values : ENABLED Detect(v) /\ ENABLED DetectOwned(v)
    /\ cd.hash \in Hashes
    /\ Len(results) = Len(values)
    /\ \A i \in 1..Len(values) : results[i] \in {None, Some(values[i])}
    /\ op = "untouched" => ret \in BOOLEAN
    /\ op = "hash" => ret \in Hashes

\* a value of hash 0 passed to a used detector, each variant having been
\* called
C12_Witness ==
    /\ Len(values) >= 2
    /\ ~gated
    /\ op = "detect_owned"
    /\ hash_of(Last(values)) = 0
    /\ ret \in {None, Some(Last(values))}

\* C13: the results and the stored hash are a function of the sequence of
\* values alone: a second fresh detector fed the same values, by whichever
\* variant at each step, has returned the same results and holds the same
\* stored hash after every step, and both are what feeding the sequence to
\* a fresh detector gives.
C13_Deterministic ==
    /\ Len(twinResults) = Len(results)
    /\ \A i \in 1..Len(results) : (twinResults[i] = None) = (results[i] = None)
    /\ hash(twin) = hash(cd)
    /\ Run(values) = [self |-> cd, results |-> results]
    /\ Run(values) = [self |-> twin, results |-> twinResults]

\* a full-length run with changed and unchanged results
C13_Witness ==
    /\ Len(values) = MaxCalls
    /\ \E i, j \in 1..Len(values) : results[i] = None /\ results[j] # None
    /\ twinResults = results

\* C14: when two distinct values of equal hash are fed consecutively, the
\* call with the second one returns None (and nothing else: no error).
C14_CollisionMissed ==
    \A k \in 2..Len(values) :
        (values[k] # values[k-1] /\ hash_of(values[k]) = hash_of(values[k-1]))
        => results[k] = None

\* a collision on a non-zero digest, after a reported change
C14_Witness ==
    /\ Len(values) = 2
    /\ values[1] # values[2]
    /\ hash_of(values[1]) = hash_of(values[2])
    /\ hash_of(values[1]) # 0
    /\ results = <<Some(values[1]), None>>

\* C15: after a detection call with a value of hash 0, untouched() is
\* true, whatever the detector's state before the call; on a fresh
\* detector that call returns None.
C15_ZeroHashLooksUntouched ==
    /\ (Len(values) >= 1 /\ hash_of(Last(values)) = 0)
         => (untouched(cd) /\ (op = "untouched" => ret = TRUE))
    /\ (Len(values) >= 1 /\ hash_of(values[1]) = 0) => results[1] = None

\* untouched() called after a used detector was given a value of hash 0
C15_Witness ==
    /\ op = "untouched"
    /\ Len(values) >= 2
    /\ hash_of(values[1]) # 0
    /\ hash_of(Last(values)) = 0
    /\ ret = TRUE

\* C16 as stated: for a caller that stores the value exactly when
\* detect_owned returns Some, after every call the hash of the value stored
\* last is the hash of the value supplied last.
C16_Original ==
    (gated /\ Len(values) >= 1)
    => (Len(file) >= 1 /\ hash_of(Last(file)) = hash_of(Last(values)))

\* C16 amended: the same, given that the first value supplied has a hash
\* other than 0.
C16_StorageInStep ==
    (gated /\ Len(values) >= 1 /\ hash_of(values[1]) # 0)
    => (Len(file) >= 1 /\ hash_of(Last(file)) = hash_of(Last(values)))

\* a gated caller after a skipped write and a second write
C16_Witness ==
    /\ gated
    /\ Len(values) = 3
    /\ hash_of(values[1]) # 0
    /\ Len(file) = 2
    /\ results[2] = None
    /\ Last(file) = Last(values)

\* C17: a detection call returns Some exactly when hash() after the call
\* differs from hash() before it; a call that returns None leaves hash()
\* and untouched() as they were.
C17_ChangedIffHashMoves ==
    [][Detected =>
         /\ (ret' # None) = (hash(cd') # hash(cd))
         /\ (ret' = None => (hash(cd') = hash(cd) /\ untouched(cd') = untouched(cd)))]_vars

\* a call that returned None on a detector that is not untouched
C17_Witness ==
    /\ op \in {"detect", "detect_owned"}
    /\ Len(values) >= 2
    /\ ret = None
    /\ ~untouched(cd)
    /\ results[Len(values) - 1] = Some(Last(values))


\* the stored hash when the detector is handed to the callers
HandedOver == IF Len(values) = 0 THEN 0 ELSE hash_of(Last(values))

\* C18: with each call holding the detector exclusively, two callers that
\* each submit the same value v to one detector whose stored hash differs
\* from hash_of(v) get exactly one Some between them, whichever of the two
\* calls first, and every call has the result and the effect of detect on
\* the detector it found.  (With the exclusion lifted, both get Some.)
C18_ExactlyOneReports ==
    /\ \A c \in Callers :
         callers[c].pc = "returned" =>
           \E h \in Hashes :
             /\ callers[c].ret = detect([hash |-> h], callers[c].value).ret
             /\ callers[c].ret \in {None, Some(callers[c].value)}
    /\ (/\ \A c \in Callers : callers[c].pc = "returned"
        /\ callers["a"].value = callers["b"].value
        /\ hash_of(callers["a"].value) # HandedOver)
       => Cardinality({c \in Callers : callers[c].ret # None}) = 1

\* on a used detector both callers have returned: b called first and got
\* Some, a got None
C18_Witness ==
    /\ Len(values) >= 1
    /\ \A c \in Callers : callers[c].pc = "returned"
    /\ callers["a"].value = callers["b"].value
    /\ hash_of(callers["a"].value) # HandedOver
    /\ callers["b"].ret = Some(callers["b"].value)
    /\ callers["a"].ret = None

==========================================================================
